---------------------------- MODULE Spec2Model ----------------------------
(***************************************************************************)
(* Model of scripts/run_pipeline.py: the MD-Pipeline orchestrator.         *)
(*                                                                         *)
(* The orchestrator is one sequential process.  Every step of the model is *)
(* one external command (one run_kubectl call) together with the Python    *)
(* code that runs up to the next command, or one KeyboardInterrupt.  The   *)
(* cluster is the environment: every command either succeeds (with an      *)
(* output drawn from a small set) or ends with CalledProcessError, and     *)
(* takes a duration drawn from Durations.  time.time() is the wall clock   *)
(* `now`, in seconds; two readings may coincide.                           *)
(*                                                                         *)
(* Not modelled: log lines (hence last_status / last_executor_count of     *)
(* wait_for_spark_job, which only decide whether a line is logged), and    *)
(* exceptions other than CalledProcessError and KeyboardInterrupt.         *)
(***************************************************************************)
EXTENDS Integers, Sequences, FiniteSets

\* ------------------------------------------------- program constants
SmokeTimeoutMinutes == 10
BronzeTimeoutMinutes == 180
SilverTimeoutMinutes == 60
GoldTimeoutMinutes == 30
PollSleep == 30
RetrySleep == 10
CleanupSleep == 10
ScalingSleep == 20
ScalingWindow == 600
target_executors == 48
DatasetGB == 1024

\* ------------------------------------------------------------ bounds
\* Clock readings are explored in ticks of 10 s (every sleep of the program is a
\* multiple of 10 s).  A run is explored over SlackTicks ticks of sleeping and,
\* at most once, a command that hangs for longer than the longest stage timeout
\* (see Stall below); every other command takes less than a tick.
SlackTicks == 6
Tick == RetrySleep
Slack == SlackTicks * Tick

Stages == <<"smoke", "bronze", "silver", "gold">>
StageSet == {"smoke", "bronze", "silver", "gold"}
StageChoices == StageSet \cup {"validate", "full"}

\* Values of .status.applicationState.state the status query can print.
Statuses == {"", "RUNNING", "SUBMISSION_FAILED", "COMPLETED", "FAILED", "CANCELLED", "ERROR"}
\* Numbers of executor pods get_executor_count can see.
ExecutorCounts == {0, 38, 39, 48}
TableChecks == {"bronze", "silver", "gold"}
\* The commands of validate_pipeline, in program order.
ValidationSteps == {"pod", "conn"} \cup TableChecks

VARIABLES
    stage_arg,            \* args.stage
    check_resources,      \* args.check_resources
    pc,                   \* the command the process is about to run
    stage,                \* the run_* stage method being executed, or "none"
    now,                  \* time.time()
    success,              \* main's success
    exit_code,            \* <<>> while running, <<n>> once the process has exited with n
    ending,               \* how the process ended: returned / exception / interrupt
    wait_start_time,      \* wait_for_spark_job: start_time
    timeout_minutes,      \* wait_for_spark_job: timeout_minutes
    status,               \* wait_for_spark_job: status
    retried,              \* wait_for_spark_job took its except branch in this wait
    elapsed,              \* wait_for_spark_job: elapsed, read at the top of the loop
    iterations,           \* wait_for_spark_job: passes of its loop begun in this wait
    scaling_start_time,   \* run_bronze_ingest: start_time
    executor_count,       \* run_bronze_ingest: executor_count
    leftover,             \* the stage's job resource predates this run's apply
    pipeline_start_time,  \* run_full_pipeline: start_time
    bronze_start, bronze_time, silver_start, silver_time, gold_start, gold_time,
    validation_success,   \* run_full_pipeline: validation_success ("none" until assigned)
    checks,               \* validate_pipeline: outcome of each of its commands
    phase,                \* per stage: how far its job got
    deletes, applies,     \* per stage: delete / apply commands issued
    validated,            \* validate_pipeline has been entered
    last_cmd              \* the last command run and whether it succeeded

mainVars == <<pc, stage, success, exit_code, ending, pipeline_start_time, bronze_start,
              bronze_time, silver_start, silver_time, gold_start, gold_time,
              validation_success, validated>>
waitVars == <<wait_start_time, timeout_minutes, status, retried, elapsed, iterations>>
argVars == <<stage_arg, check_resources>>
traceVars == <<phase, deletes, applies>>
vars == <<stage_arg, check_resources, pc, stage, now, success, exit_code, ending,
          wait_start_time, timeout_minutes, status, retried, elapsed, iterations,
          scaling_start_time, executor_count, leftover,
          pipeline_start_time, bronze_start, bronze_time, silver_start, silver_time,
          gold_start, gold_time, validation_success, checks, phase, deletes, applies,
          validated, last_cmd>>

Terminal == {"Succeeded", "Failed", "TimedOut"}
Exited == exit_code # << >>


timeVars == <<pipeline_start_time, bronze_start, bronze_time, silver_start, silver_time,
              gold_start, gold_time>>

\* ------------------------------------------------------ pure helpers
\* Mutant: the timeout in minutes is compared with elapsed seconds.
TimeoutSecondsNoConversion(m) == m

\* wait_for_spark_job: timeout_seconds = timeout_minutes * 60
TimeoutSeconds(m) == m * 60

\* Mutant: the timeout is never detected.
WaitNeverTimesOut(e, timeout_seconds) == FALSE

\* wait_for_spark_job: if elapsed > timeout_seconds
WaitTimedOut(e, timeout_seconds) == e > timeout_seconds

\* Mutant: a job still running counts as completed.
IsCompletedOrRunning(s) == s \in {"COMPLETED", "RUNNING"}

\* wait_for_spark_job: if status == "COMPLETED"
IsCompleted(s) == s = "COMPLETED"

\* Mutant: CANCELLED is missing from the failure statuses.
IsFailureWithoutCancelled(s) == s \in {"FAILED", "ERROR"}

\* wait_for_spark_job: elif status in ["FAILED", "CANCELLED", "ERROR"]
IsFailure(s) == s \in {"FAILED", "CANCELLED", "ERROR"}

\* The timeout_minutes each run_* method passes to wait_for_spark_job.
StageTimeoutMinutes(s) ==
    CASE s = "smoke" -> SmokeTimeoutMinutes
      [] s = "bronze" -> BronzeTimeoutMinutes
      [] s = "silver" -> SilverTimeoutMinutes
      [] s = "gold" -> GoldTimeoutMinutes

\* run_bronze_ingest: while time.time() - start_time < 600
ScalingWindowOpen(t, start) == t - start < ScalingWindow

\* Mutant: the threshold is truncated to a whole number of executors (38).
EnoughExecutorsTruncated(count) == count >= (target_executors * 8) \div 10

\* run_bronze_ingest: if executor_count >= target_executors * 0.8  (38.4)
EnoughExecutors(count) == count * 10 >= target_executors * 8

\* get_executor_count: the number of pods listed, 0 when the command fails
GetExecutorCount(ok, listed) == IF ok THEN listed ELSE 0

\* Mutant: sys.exit(success), which exits with 1 for True and 0 for False.
ExitCodeIsSuccessFlag(ok) == IF ok THEN 1 ELSE 0

\* main: sys.exit(0 if success else 1)
ExitCodeFor(ok) == IF ok THEN 0 ELSE 1

\* Mutant: the summary's divisions never fail.
SummaryNeverRaises(bt, tt) == FALSE

\* run_full_pipeline: 1024*60/bronze_time and 1024 / (total_time / 60) raise
\* ZeroDivisionError when the divisor is 0.
SummaryRaises(bt, tt) == bt = 0 \/ tt = 0

\* Mutants: the try/except around the command is missing.
DeleteUnhandled(ok) == ~ok
StatusQueryUnhandled(ok) == ~ok
LogsUnhandled(ok) == ~ok
TableCheckUnhandled(ok) == ~ok

\* Does the CalledProcessError of a failed command leave the function that ran it?
\* delete_spark_job: except subprocess.CalledProcessError (logged, "this is okay")
DeleteRaises(ok) == FALSE
\* apply_manifest: no handler
ApplyRaises(ok) == ~ok
\* wait_for_spark_job: except subprocess.CalledProcessError -> warning, sleep, retry
StatusQueryRaises(ok) == FALSE
\* show_job_logs: both log commands are wrapped in their own try/except
LogsRaise(ok) == FALSE
\* run_bronze_ingest: the performance-metrics fetch is wrapped in try/except
MetricsRaise(ok) == FALSE
\* validate_pipeline: each table check is wrapped in its own try/except
TableCheckRaises(ok) == FALSE
\* check_cluster_resources: except subprocess.CalledProcessError -> warning
ResourceCheckRaises(ok) == FALSE

\* run_full_pipeline: bronze_throughput = 1024 * 60 / bronze_time  (GB/min, whole part)
BronzeThroughput(bt) == (DatasetGB * 60) \div bt

\* run_full_pipeline: overall_throughput = 1024 / (total_time / 60)  (GB/min, whole part)
OverallThroughput(tt) == (DatasetGB * 60) \div tt

\* oc delete sparkapplication <job>: whether a resource of that name created
\* before this run can still exist once the command has ended.
LeftoverAfterDelete(ok) == IF ok THEN {FALSE} ELSE BOOLEAN

\* ----------------------------------------------------- the wall clock
\* A command that hangs: subprocess.run is called without a timeout, so a
\* command may outlast any stage timeout (the longest is 180 minutes).
Stall == TimeoutSeconds(BronzeTimeoutMinutes) + Tick
Durations == {0, Stall}
\* A single run of the smoke test is explored for as long as its wait can last:
\* the cleanup sleep, the whole timeout and the last sleep of the loop.
SmokeHorizon == CleanupSleep + TimeoutSeconds(SmokeTimeoutMinutes) + PollSleep
Horizon == IF stage_arg = "smoke" /\ ~check_resources THEN SmokeHorizon ELSE Slack
MaxClock == Stall + Horizon
\* The clock readings explored.
ClockReading(t) == t <= MaxClock /\ t % Stall <= Horizon

\* --------------------------------------------------- building blocks
\* One run_kubectl call named `name` that takes d seconds and succeeds iff ok,
\* followed by time.sleep(sleep).
RunKubectl(name, ok, d, sleep) ==
    /\ ClockReading(now + d + sleep)
    /\ now' = now + d + sleep
    /\ last_cmd' = [name |-> name, ok |-> ok]

\* main: sys.exit(0 if success else 1) after the selected stage returned ok.
MainExit(ok) ==
    /\ success' = ok
    /\ exit_code' = <<ExitCodeFor(ok)>>
    /\ ending' = "returned"
    /\ pc' = "exited"
    /\ stage' = "none"

\* main: except Exception -> sys.exit(1)
RaiseToMain ==
    /\ exit_code' = <<1>>
    /\ ending' = "exception"
    /\ pc' = "exited"
    /\ stage' = "none"
    /\ UNCHANGED success

\* A run_* method is entered: its first command is the delete.
EnterStage(s) ==
    /\ stage' = s
    /\ pc' = "delete"
    /\ UNCHANGED <<success, exit_code, ending>>

\* validate_pipeline is entered: its first command looks for the Trino pod.
EnterValidate ==
    /\ stage' = "none"
    /\ pc' = "val_pod"
    /\ validated' = TRUE
    /\ UNCHANGED <<success, exit_code, ending>>

\* run_full_pipeline: "... failed - aborting pipeline", return False; main then
\* exits with status 1.
PipelineAbort ==
    /\ MainExit(FALSE)
    /\ UNCHANGED <<timeVars, validated>>

\* run_full_pipeline after the stage method `s` returned True at time t: record
\* the stage's time, read the next stage's start time and run the next step.
PipelineContinue(s, t) ==
    CASE s = "smoke" ->
            /\ bronze_start' = t
            /\ EnterStage("bronze")
            /\ UNCHANGED <<pipeline_start_time, bronze_time, silver_start,
                           silver_time, gold_start, gold_time, validated>>
      [] s = "bronze" ->
            /\ bronze_time' = t - bronze_start
            /\ silver_start' = t
            /\ EnterStage("silver")
            /\ UNCHANGED <<pipeline_start_time, bronze_start, silver_time,
                           gold_start, gold_time, validated>>
      [] s = "silver" ->
            /\ silver_time' = t - silver_start
            /\ gold_start' = t
            /\ EnterStage("gold")
            /\ UNCHANGED <<pipeline_start_time, bronze_start, bronze_time,
                           silver_start, gold_time, validated>>
      [] s = "gold" ->
            /\ gold_time' = t - gold_start
            /\ EnterValidate
            /\ UNCHANGED <<pipeline_start_time, bronze_start, bronze_time,
                           silver_start, silver_time, gold_start>>

\* Mutant: only the smoke test's result is checked.
FullPipelineOnlySmokeChecked(s, ok, t) ==
    IF ~ok /\ s = "smoke" THEN PipelineAbort ELSE PipelineContinue(s, t)

\* run_full_pipeline after the stage method `s` returned ok at time t:
\* if not self.run_...(): return False
FullPipelineAfterStage(s, ok, t) ==
    IF ~ok THEN PipelineAbort ELSE PipelineContinue(s, t)

\* The stage method being executed returns ok at time t, to main or to
\* run_full_pipeline.
StageReturns(ok, t) ==
    /\ IF stage_arg = "full"
       THEN FullPipelineAfterStage(stage, ok, t)
       ELSE MainExit(ok) /\ UNCHANGED <<timeVars, validated>>
    /\ UNCHANGED validation_success

\* run_full_pipeline after validate_pipeline returned ok at time t: the result is
\* only logged, then the performance summary is computed and True is returned.
FullPipelineAfterValidate(ok, t) ==
    /\ validation_success' = <<ok>>
    /\ IF SummaryRaises(bronze_time, t - pipeline_start_time)
       THEN RaiseToMain
       ELSE MainExit(TRUE)

\* validate_pipeline returns ok at time t, to main or to run_full_pipeline.
ValidateReturns(ok, t) ==
    /\ IF stage_arg = "full"
       THEN FullPipelineAfterValidate(ok, t)
       ELSE MainExit(ok) /\ UNCHANGED validation_success
    /\ UNCHANGED <<timeVars, validated>>

\* wait_for_spark_job is entered at time t.
EnterWait(t) ==
    /\ wait_start_time' = t
    /\ timeout_minutes' = StageTimeoutMinutes(stage)
    /\ status' = ""
    /\ retried' = FALSE
    /\ elapsed' = 0
    /\ iterations' = 0
    /\ pc' = "wait"
    /\ UNCHANGED <<stage, success, exit_code, ending, timeVars, validation_success,
                   validated>>

\* wait_for_spark_job returns ok at time t, the job's outcome being `outcome`.
\* run_bronze_ingest fetches the performance metrics before it returns True.
WaitReturns(ok, outcome, t) ==
    /\ phase' = [phase EXCEPT ![stage] = outcome]
    /\ IF ok /\ stage = "bronze"
       THEN /\ pc' = "bronze_metrics"
            /\ UNCHANGED <<stage, success, exit_code, ending, timeVars,
                           validation_success, validated>>
       ELSE StageReturns(ok, t)

\* ------------------------------------------------------------- Init
Init ==
    /\ stage_arg \in StageChoices
    /\ check_resources \in BOOLEAN
    /\ pc = "main"
    /\ stage = "none"
    /\ now = 0
    /\ success = FALSE
    /\ exit_code = << >>
    /\ ending = "none"
    /\ wait_start_time = 0
    /\ timeout_minutes = 0
    /\ status = ""
    /\ retried = FALSE
    /\ elapsed = 0
    /\ iterations = 0
    /\ scaling_start_time = 0
    /\ executor_count = 0
    /\ leftover = FALSE
    /\ pipeline_start_time = 0
    /\ bronze_start = 0
    /\ bronze_time = 0
    /\ silver_start = 0
    /\ silver_time = 0
    /\ gold_start = 0
    /\ gold_time = 0
    /\ validation_success = << >>
    /\ checks = [c \in ValidationSteps |-> "none"]
    /\ phase = [s \in StageSet |-> "NotStarted"]
    /\ deletes = [s \in StageSet |-> 0]
    /\ applies = [s \in StageSet |-> 0]
    /\ validated = FALSE
    /\ last_cmd = [name |-> "none", ok |-> TRUE]

\* ---------------------------------------------------------- actions
\* main: --check-resources runs the resource check alone; otherwise the stage
\* selector picks one stage method, validate_pipeline or run_full_pipeline (which
\* begins with the resource check).
Main ==
    /\ pc = "main"
    /\ IF check_resources \/ stage_arg = "full"
       THEN /\ pc' = "check_nodes"
            /\ UNCHANGED <<stage, success, exit_code, ending, validated>>
       ELSE IF stage_arg = "validate"
            THEN EnterValidate
            ELSE EnterStage(stage_arg) /\ UNCHANGED validated
    /\ UNCHANGED <<argVars, executor_count, leftover, now, waitVars, scaling_start_time, timeVars,
                   validation_success, checks, traceVars, last_cmd>>

\* Mutant: the resource check is always followed by the pipeline ("check cluster
\* resources before running").
AfterResourceCheckThenRun(t) ==
    /\ pipeline_start_time' = t
    /\ EnterStage("smoke")
    /\ UNCHANGED <<bronze_start, bronze_time, silver_start, silver_time,
                   gold_start, gold_time>>

\* After check_cluster_resources at time t: main returns (exit status 0) when the
\* flag was given; run_full_pipeline reads its start time and runs the smoke test.
AfterResourceCheck(t) ==
    IF check_resources
    THEN /\ exit_code' = <<0>>
         /\ ending' = "check_only"
         /\ pc' = "exited"
         /\ UNCHANGED <<stage, success, timeVars>>
    ELSE /\ pipeline_start_time' = t
         /\ EnterStage("smoke")
         /\ UNCHANGED <<bronze_start, bronze_time, silver_start, silver_time,
                        gold_start, gold_time>>

\* check_cluster_resources: oc get nodes -o wide
CheckNodes ==
    /\ pc = "check_nodes"
    /\ \E d \in Durations, ok \in BOOLEAN :
        /\ RunKubectl("nodes", ok, d, 0)
        /\ IF ok
           THEN /\ pc' = "check_top"
                /\ UNCHANGED <<stage, success, exit_code, ending, timeVars>>
           ELSE IF ResourceCheckRaises(ok)
                THEN RaiseToMain /\ UNCHANGED timeVars
                ELSE AfterResourceCheck(now')
    /\ UNCHANGED <<argVars, executor_count, leftover, waitVars, scaling_start_time, validation_success, checks,
                   traceVars, validated>>

\* check_cluster_resources: oc top nodes
CheckTop ==
    /\ pc = "check_top"
    /\ \E d \in Durations, ok \in BOOLEAN :
        /\ RunKubectl("top", ok, d, 0)
        /\ IF ResourceCheckRaises(ok)
           THEN RaiseToMain /\ UNCHANGED timeVars
           ELSE AfterResourceCheck(now')
    /\ UNCHANGED <<argVars, executor_count, leftover, waitVars, scaling_start_time, validation_success, checks,
                   traceVars, validated>>

\* delete_spark_job: oc delete sparkapplication; 10 s of cleanup after a
\* successful delete, none after a failed one.  A successful delete leaves no
\* resource of the job's name; a failed one either found none or left an
\* earlier run's resource in place (every failure is logged as "not found").
DeleteSparkJob ==
    /\ pc = "delete"
    /\ \E d \in Durations, ok \in BOOLEAN :
        /\ RunKubectl("delete", ok, d, IF ok THEN CleanupSleep ELSE 0)
        /\ leftover' \in LeftoverAfterDelete(ok)
        /\ IF DeleteRaises(ok)
           THEN RaiseToMain
           ELSE /\ pc' = "apply"
                /\ UNCHANGED <<stage, success, exit_code, ending>>
    /\ deletes' = [deletes EXCEPT ![stage] = @ + 1]
    /\ UNCHANGED <<argVars, executor_count, waitVars, scaling_start_time, timeVars, validation_success,
                   checks, phase, applies, validated>>

\* apply_manifest: oc apply -f; then run_bronze_ingest starts watching the
\* executors and the other stages enter wait_for_spark_job.
ApplyManifest ==
    /\ pc = "apply"
    /\ \E d \in Durations, ok \in BOOLEAN :
        /\ RunKubectl("apply", ok, d, 0)
        /\ IF ApplyRaises(ok)
           THEN /\ RaiseToMain
                /\ UNCHANGED <<timeVars, validation_success, validated, waitVars,
                               scaling_start_time, phase>>
           ELSE /\ phase' = [phase EXCEPT ![stage] = "Submitted"]
                /\ IF stage = "bronze"
                   THEN /\ scaling_start_time' = now'
                        /\ pc' = "scaling"
                        /\ UNCHANGED <<stage, success, exit_code, ending, timeVars,
                                       validation_success, validated, waitVars>>
                   ELSE EnterWait(now') /\ UNCHANGED scaling_start_time
    /\ applies' = [applies EXCEPT ![stage] = @ + 1]
    /\ UNCHANGED <<argVars, executor_count, leftover, checks, deletes>>

\* run_bronze_ingest: the scaling loop's condition is false, the loop ends.
BronzeScalingExpired ==
    /\ pc = "scaling"
    /\ ~ScalingWindowOpen(now, scaling_start_time)
    /\ EnterWait(now)
    /\ UNCHANGED <<argVars, executor_count, leftover, now, scaling_start_time, checks, traceVars, last_cmd>>

\* run_bronze_ingest: one iteration of the scaling loop: count the executors,
\* break when there are enough, else sleep 20 s.
BronzeScalingPoll ==
    /\ pc = "scaling"
    /\ ScalingWindowOpen(now, scaling_start_time)
    /\ \E d \in Durations, ok \in BOOLEAN, listed \in ExecutorCounts :
        /\ ok \/ listed = 0
        /\ executor_count' = GetExecutorCount(ok, listed)
        /\ IF EnoughExecutors(executor_count')
           THEN /\ RunKubectl("executors", ok, d, 0)
                /\ EnterWait(now')
           ELSE /\ RunKubectl("executors", ok, d, ScalingSleep)
                /\ UNCHANGED <<mainVars, waitVars>>
    /\ UNCHANGED <<argVars, leftover, scaling_start_time, checks, traceVars>>

\* Mutant: on a timeout the stage applies its manifest again.
WaitTimeoutRetriesStage ==
    /\ pc = "wait"
    /\ WaitTimedOut(now - wait_start_time, TimeoutSeconds(timeout_minutes))
    /\ pc' = "apply"
    /\ phase' = [phase EXCEPT ![stage] = "TimedOut"]
    /\ elapsed' = now - wait_start_time
    /\ iterations' = iterations + 1
    /\ UNCHANGED <<argVars, executor_count, leftover, now, wait_start_time, timeout_minutes,
                   status, retried, scaling_start_time, checks, deletes, applies,
                   last_cmd, stage, success, exit_code, ending, timeVars,
                   validation_success, validated>>

\* wait_for_spark_job: elapsed > timeout_seconds at the top of the loop.
WaitTimeout ==
    /\ pc = "wait"
    /\ WaitTimedOut(now - wait_start_time, TimeoutSeconds(timeout_minutes))
    /\ WaitReturns(FALSE, "TimedOut", now)
    /\ elapsed' = now - wait_start_time
    /\ iterations' = iterations + 1
    /\ UNCHANGED <<argVars, executor_count, leftover, now, wait_start_time, timeout_minutes,
                   status, retried, scaling_start_time, checks, deletes, applies,
                   last_cmd>>

\* wait_for_spark_job: the status query.  A failed query is retried after 10 s.
WaitStatusQuery ==
    /\ pc = "wait"
    /\ ~WaitTimedOut(now - wait_start_time, TimeoutSeconds(timeout_minutes))
    /\ \E d \in Durations, ok \in BOOLEAN, s \in Statuses :
        /\ ok \/ s = status
        /\ IF ok
           THEN /\ RunKubectl("status", ok, d, 0)
                /\ status' = s
                /\ pc' = "wait_executors"
                /\ UNCHANGED <<retried, stage, success, exit_code, ending>>
           ELSE IF StatusQueryRaises(ok)
                THEN /\ RunKubectl("status", ok, d, 0)
                     /\ RaiseToMain
                     /\ UNCHANGED <<status, retried>>
                ELSE /\ RunKubectl("status", ok, d, RetrySleep)
                     /\ retried' = TRUE
                     /\ UNCHANGED <<status, pc, stage, success, exit_code, ending>>
    /\ phase' = [phase EXCEPT ![stage] = "Polling"]
    /\ elapsed' = now - wait_start_time
    /\ iterations' = iterations + 1
    /\ UNCHANGED <<argVars, executor_count, leftover, wait_start_time, timeout_minutes, scaling_start_time,
                   timeVars, validation_success, checks, deletes, applies, validated>>

\* wait_for_spark_job: get_executor_count (which never raises), then the
\* decision on the status just read: return True, show the logs, or sleep 30 s.
WaitGetExecutorCount ==
    /\ pc = "wait_executors"
    /\ \E d \in Durations, ok \in BOOLEAN :
        IF IsCompleted(status)
        THEN /\ RunKubectl("executors", ok, d, 0)
             /\ WaitReturns(TRUE, "Succeeded", now')
        ELSE IF IsFailure(status)
             THEN /\ RunKubectl("executors", ok, d, 0)
                  /\ pc' = "logs_driver"
                  /\ UNCHANGED <<stage, success, exit_code, ending, timeVars,
                                 validation_success, validated, phase>>
             ELSE /\ RunKubectl("executors", ok, d, PollSleep)
                  /\ pc' = "wait"
                  /\ UNCHANGED <<stage, success, exit_code, ending, timeVars,
                                 validation_success, validated, phase>>
    /\ UNCHANGED <<argVars, executor_count, leftover, waitVars, scaling_start_time, checks, deletes, applies>>

\* show_job_logs: the driver logs.
ShowDriverLogs ==
    /\ pc = "logs_driver"
    /\ \E d \in Durations, ok \in BOOLEAN :
        /\ RunKubectl("logs_driver", ok, d, 0)
        /\ IF LogsRaise(ok)
           THEN RaiseToMain
           ELSE /\ pc' = "logs_executor"
                /\ UNCHANGED <<stage, success, exit_code, ending>>
    /\ UNCHANGED <<argVars, executor_count, leftover, waitVars, scaling_start_time, timeVars, validation_success,
                   checks, traceVars, validated>>

\* show_job_logs: the executor logs; then wait_for_spark_job returns False.
ShowExecutorLogs ==
    /\ pc = "logs_executor"
    /\ \E d \in Durations, ok \in BOOLEAN :
        /\ RunKubectl("logs_executor", ok, d, 0)
        /\ IF LogsRaise(ok)
           THEN /\ RaiseToMain
                /\ UNCHANGED <<timeVars, validation_success, validated, phase>>
           ELSE WaitReturns(FALSE, "Failed", now')
    /\ UNCHANGED <<argVars, executor_count, leftover, waitVars, scaling_start_time, checks, deletes, applies>>

\* run_bronze_ingest: the performance-metrics log fetch; then it returns True.
BronzeMetrics ==
    /\ pc = "bronze_metrics"
    /\ \E d \in Durations, ok \in BOOLEAN :
        /\ RunKubectl("metrics", ok, d, 0)
        /\ IF MetricsRaise(ok)
           THEN /\ RaiseToMain
                /\ UNCHANGED <<timeVars, validation_success, validated>>
           ELSE StageReturns(TRUE, now')
    /\ UNCHANGED <<argVars, executor_count, leftover, waitVars, scaling_start_time, checks, traceVars>>

\* validate_pipeline: find the Trino coordinator pod.  A failed command (outer
\* except) and an empty name both return False.
ValidateFindPod ==
    /\ pc = "val_pod"
    /\ \E d \in Durations, ok \in BOOLEAN, found \in BOOLEAN :
        /\ ok \/ ~found
        /\ RunKubectl("trino_pod", ok, d, 0)
        /\ checks' = [checks EXCEPT !["pod"] = IF ok /\ found THEN "ok" ELSE "fail"]
        /\ IF ok /\ found
           THEN /\ pc' = "val_conn"
                /\ UNCHANGED <<stage, success, exit_code, ending, timeVars,
                               validation_success, validated>>
           ELSE ValidateReturns(FALSE, now')
    /\ UNCHANGED <<argVars, executor_count, leftover, waitVars, scaling_start_time, traceVars>>

\* validate_pipeline: SELECT 1 through the Trino pod; a failure reaches the outer
\* except and returns False.
ValidateConnectivity ==
    /\ pc = "val_conn"
    /\ \E d \in Durations, ok \in BOOLEAN :
        /\ RunKubectl("trino_conn", ok, d, 0)
        /\ checks' = [checks EXCEPT !["conn"] = IF ok THEN "ok" ELSE "fail"]
        /\ IF ok
           THEN /\ pc' = "val_bronze"
                /\ UNCHANGED <<stage, success, exit_code, ending, timeVars,
                               validation_success, validated>>
           ELSE ValidateReturns(FALSE, now')
    /\ UNCHANGED <<argVars, executor_count, leftover, waitVars, scaling_start_time, traceVars>>

\* validate_pipeline: the check of table c, run at `at`; a failure is a warning.
\* After the last check (next = "return") validate_pipeline returns True.
TableCheck(c, at, next) ==
    /\ pc = at
    /\ \E d \in Durations, ok \in BOOLEAN :
        /\ RunKubectl(c, ok, d, 0)
        /\ checks' = [checks EXCEPT ![c] = IF ok THEN "ok" ELSE "fail"]
        /\ IF TableCheckRaises(ok)
           THEN ValidateReturns(FALSE, now')
           ELSE IF next = "return"
                THEN ValidateReturns(TRUE, now')
                ELSE /\ pc' = next
                     /\ UNCHANGED <<stage, success, exit_code, ending, timeVars,
                                    validation_success, validated>>
    /\ UNCHANGED <<argVars, executor_count, leftover, waitVars, scaling_start_time, traceVars>>

ValidateBronze == TableCheck("bronze", "val_bronze", "val_silver")
ValidateSilver == TableCheck("silver", "val_silver", "val_gold")
ValidateGold == TableCheck("gold", "val_gold", "return")

\* KeyboardInterrupt while a command or a sleep is in progress.  Inside main's
\* try block it ends the process with sys.exit(1); the --check-resources call is
\* outside the try block, so there the interpreter ends the process itself (exit
\* status 1, or death by SIGINT, reported as 130).
KeyboardInterrupt ==
    /\ pc \notin {"main", "exited"}
    /\ IF check_resources
       THEN \E c \in {1, 130} : exit_code' = <<c>>
       ELSE exit_code' = <<1>>
    /\ ending' = "interrupt"
    /\ pc' = "exited"
    /\ stage' = "none"
    /\ UNCHANGED <<argVars, executor_count, leftover, now, success, waitVars, scaling_start_time, timeVars,
                   validation_success, checks, traceVars, validated, last_cmd>>

Next ==
    \/ Main
    \/ CheckNodes
    \/ CheckTop
    \/ DeleteSparkJob
    \/ ApplyManifest
    \/ BronzeScalingExpired
    \/ BronzeScalingPoll
    \/ WaitTimeout
    \/ WaitStatusQuery
    \/ WaitGetExecutorCount
    \/ ShowDriverLogs
    \/ ShowExecutorLogs
    \/ BronzeMetrics
    \/ ValidateFindPod
    \/ ValidateConnectivity
    \/ ValidateBronze
    \/ ValidateSilver
    \/ ValidateGold
    \/ KeyboardInterrupt

Spec == Init /\ [][Next]_vars

\* A single run of the smoke test (--stage smoke): the steps of the program, and
\* the interrupt the user may or may not send.  The program is sequential and
\* every command it starts ends (in success or in CalledProcessError), so a step
\* of the program that can be taken is eventually taken.
SmokeInit == Init /\ stage_arg = "smoke" /\ check_resources = FALSE

SmokeStep ==
    \/ Main
    \/ DeleteSparkJob
    \/ ApplyManifest
    \/ WaitTimeout
    \/ WaitStatusQuery
    \/ WaitGetExecutorCount
    \/ ShowDriverLogs
    \/ ShowExecutorLogs

SmokeNext == SmokeStep \/ KeyboardInterrupt

SmokeSpec == SmokeInit /\ [][SmokeNext]_vars /\ WF_vars(SmokeStep)

\* ------------------------------------------------------------ claims
\* The step is a KeyboardInterrupt.
InterruptStep == ending' = "interrupt" /\ ending # "interrupt"

\* The step is a status query of wait_for_spark_job.
StatusQueryStep ==
    /\ pc = "wait"
    /\ last_cmd'.name = "status"
    /\ last_cmd' # last_cmd \/ now' # now

\* wait_for_spark_job returns in this step for stage s.
WaitReturnStep(s) == phase[s] \notin Terminal /\ phase'[s] \in Terminal

IsTerminalStatus(s) == IsCompleted(s) \/ IsFailure(s)

StageIndex(s) == CHOOSE i \in 1..4 : Stages[i] = s

\* C1: when wait_for_spark_job returns for a stage without the status query ever
\* having returned a terminal status, the stage's timeout has elapsed
\* (elapsed > 60 * the stage's timeout in minutes), the outcome is the timeout,
\* the stage returns False and the process exits with status 1: never success.
C1_TimeoutIsFailure ==
    [][\A s \in StageSet :
        (WaitReturnStep(s) /\ ~IsTerminalStatus(status')) =>
            /\ phase'[s] = "TimedOut"
            /\ now - wait_start_time > StageTimeoutMinutes(s) * 60
            /\ success' = FALSE
            /\ exit_code' = <<1>>
            /\ ending' = "returned"]_vars

\* C1 witness: the gold stage of a full run timed out while its job was RUNNING.
C1_Witness ==
    /\ stage_arg = "full"
    /\ phase["gold"] = "TimedOut"
    /\ status = "RUNNING"
    /\ exit_code = <<1>>

\* C2: in a full run, once a stage has failed or timed out, the process has
\* exited with status 1 (the run returned False), no delete or apply was issued
\* for any later stage and validation was not entered.
C2_AbortOnFirstFailure ==
    stage_arg = "full" =>
        \A s \in StageSet :
            phase[s] \in {"Failed", "TimedOut"} =>
                /\ exit_code = <<1>>
                /\ success = FALSE
                /\ ~validated
                /\ \A later \in StageSet :
                       StageIndex(later) > StageIndex(s) =>
                           /\ deletes[later] = 0
                           /\ applies[later] = 0
                           /\ phase[later] = "NotStarted"

\* C2 witness: bronze ingest failed in a full run; silver was never applied.
C2_Witness ==
    /\ stage_arg = "full"
    /\ phase["smoke"] = "Succeeded"
    /\ phase["bronze"] = "Failed"
    /\ applies["silver"] = 0
    /\ exit_code = <<1>>

\* C3 (as claimed): in a full run whose four stages all succeeded, once
\* validate_pipeline has returned (True or False) the exit status is 0.
C3_ExitZeroWhateverValidation ==
    (/\ stage_arg = "full"
     /\ \A s \in StageSet : phase[s] = "Succeeded"
     /\ validation_success # << >>
     /\ Exited) => exit_code = <<0>>

\* C4: the decision wait_for_spark_job takes on the status just read: COMPLETED
\* and nothing else returns True; FAILED, CANCELLED and ERROR go to the logs with
\* no further status query and then return False; every other value (the empty
\* string included) sleeps and polls again without ending the wait.
C4_StatusDecision ==
    [][/\ (pc = "wait_executors" /\ ~InterruptStep /\ pc' # pc) =>
            /\ status = "COMPLETED" => phase'[stage] = "Succeeded"
            /\ status \in {"FAILED", "CANCELLED", "ERROR"} =>
                   pc' = "logs_driver" /\ phase'[stage] = "Polling"
            /\ status \notin {"COMPLETED", "FAILED", "CANCELLED", "ERROR"} =>
                   /\ pc' = "wait"
                   /\ phase'[stage] = "Polling"
                   /\ now' >= now + PollSleep
       /\ \A s \in StageSet :
            /\ (phase[s] # "Succeeded" /\ phase'[s] = "Succeeded") =>
                   status = "COMPLETED" /\ pc = "wait_executors"
            /\ (phase[s] # "Failed" /\ phase'[s] = "Failed") =>
                   status \in {"FAILED", "CANCELLED", "ERROR"}
       /\ (pc \in {"logs_driver", "logs_executor"}) => ~StatusQueryStep
       /\ StatusQueryStep => ~IsTerminalStatus(status)]_vars

\* C4 witness: the job was SUBMISSION_FAILED at one poll, the wait went on, and a
\* later poll read COMPLETED: the stage succeeded.
C4_Witness ==
    /\ stage_arg = "silver"
    /\ phase["silver"] = "Succeeded"
    /\ status = "COMPLETED"
    /\ ~retried
    /\ now - wait_start_time = PollSleep
    /\ exit_code = <<0>>

\* C5: a failed status query does not leave wait_for_spark_job: no exception, no
\* return, the loop sleeps at least 10 s and polls again; a failed executor-count
\* query changes nothing of the decision taken on the status.
C5_QueryErrorsRetried ==
    [][/\ (StatusQueryStep /\ ~last_cmd'.ok) =>
            /\ pc' = "wait"
            /\ ~Exited'
            /\ stage' = stage
            /\ phase'[stage] = "Polling"
            /\ retried'
            /\ now' >= now + RetrySleep
       /\ (/\ pc = "wait_executors"
           /\ pc' # pc
           /\ last_cmd' = [name |-> "executors", ok |-> FALSE]) =>
            /\ ending' # "exception"
            /\ IsCompleted(status) => phase'[stage] = "Succeeded"
            /\ ~IsTerminalStatus(status) => pc' = "wait" /\ ~Exited']_vars

\* C5 witness: a status query failed, and the COMPLETED read afterwards still
\* made the stage succeed (exit status 0).
C5_Witness ==
    /\ stage_arg = "silver"
    /\ retried
    /\ phase["silver"] = "Succeeded"
    /\ exit_code = <<0>>

\* C6: when the delete command fails, delete_spark_job returns normally: the
\* process does not exit and the stage's next command is the apply.
C6_DeleteFailureIsOkay ==
    [][(/\ pc = "delete"
        /\ pc' # pc
        /\ last_cmd' = [name |-> "delete", ok |-> FALSE]) =>
            /\ pc' = "apply"
            /\ ~Exited'
            /\ stage' = stage
            /\ now' = now \/ now' = now + Stall]_vars

\* C6 witness: the manifest was applied at clock reading 0, so the delete before
\* it failed (a successful delete is followed by 10 s of cleanup).
C6_Witness ==
    \E s \in StageSet :
        /\ deletes[s] = 1
        /\ applies[s] = 1
        /\ phase[s] = "Submitted"
        /\ now = 0

\* The selected stage, validation or full pipeline returned True to main.
SelectedSucceeded ==
    /\ ending = "returned"
    /\ CASE stage_arg \in StageSet -> phase[stage_arg] = "Succeeded"
         [] stage_arg = "validate" -> checks["gold"] # "none"
         [] stage_arg = "full" ->
                /\ \A s \in StageSet : phase[s] = "Succeeded"
                /\ validation_success # << >>

StageRunEnded(s) == deletes[s] > 0 /\ stage # s /\ ending # "interrupt"

StageTransitions ==
    {<<"NotStarted", "Submitted">>, <<"Submitted", "Polling">>,
     <<"Polling", "Succeeded">>, <<"Polling", "Failed">>, <<"Polling", "TimedOut">>}

\* C8 (as claimed, the part a state shows): the delete precedes the apply, the
\* apply precedes polling, the manifest is applied at most once, and every
\* stage run that is over ended in Succeeded, Failed or TimedOut.
C8_EveryStageEndsInOutcome ==
    \A s \in StageSet :
        /\ applies[s] <= 1
        /\ applies[s] > 0 => deletes[s] > 0
        /\ phase[s] # "NotStarted" => applies[s] = 1
        /\ StageRunEnded(s) => phase[s] \in Terminal

\* C8 (amended): each stage follows only NotStarted -> Submitted -> Polling ->
\* {Succeeded, Failed, TimedOut}; the delete is issued before the apply and the
\* apply before any status query; the manifest is applied at most once; an
\* outcome once reached is final, with no further apply or status query for that
\* job; a stage method that returns has reached exactly one outcome.
\* A stage method left by an exception is one whose apply command failed: it
\* is still NotStarted and the process exits with status 1.
C8_StageMachine ==
    [][\A s \in StageSet :
        /\ phase'[s] # phase[s] =>
               <<phase[s], phase'[s]>> \in StageTransitions /\ stage = s
        /\ applies'[s] <= 1 /\ deletes'[s] <= 1
        /\ applies'[s] # applies[s] =>
               /\ deletes[s] = 1
               /\ phase[s] = "NotStarted"
               /\ last_cmd'.name = "apply"
        /\ (stage = s /\ StatusQueryStep) =>
               /\ applies[s] = 1
               /\ phase[s] \in {"Submitted", "Polling"}
               /\ phase'[s] = "Polling"
        /\ phase[s] \in Terminal =>
               /\ phase'[s] = phase[s]
               /\ applies'[s] = applies[s]
               /\ deletes'[s] = deletes[s]
               /\ ~(stage = s /\ StatusQueryStep)
        /\ (stage = s /\ stage' # s /\ ~InterruptStep) =>
               IF ending' = "exception"
               THEN /\ last_cmd' = [name |-> "apply", ok |-> FALSE]
                    /\ phase'[s] = "NotStarted"
                    /\ exit_code' = <<1>>
               ELSE phase'[s] \in Terminal]_vars

\* C8 witness: the gold stage of a full run went through delete, apply and
\* polling and ended in Failed; its run is over.
C8_Witness ==
    /\ stage_arg = "full"
    /\ deletes["gold"] = 1
    /\ applies["gold"] = 1
    /\ phase["gold"] = "Failed"
    /\ StageRunEnded("gold")

\* C9: a failed log command changes nothing.  After a failure status both log
\* commands are run, whatever the first one did, and the stage then returns
\* False (exit status 1, no exception); after the bronze job completed, the
\* stage returns True whatever the performance-metrics fetch did.
C9_LogFailuresSwallowed ==
    [][/\ (pc = "logs_driver" /\ pc' # pc /\ ~InterruptStep) =>
            /\ pc' = "logs_executor"
            /\ last_cmd'.name = "logs_driver"
            /\ ~Exited'
       /\ (pc = "logs_executor" /\ pc' # pc /\ ~InterruptStep) =>
            /\ last_cmd'.name = "logs_executor"
            /\ phase'[stage] = "Failed"
            /\ ending' = "returned"
            /\ success' = FALSE
            /\ exit_code' = <<1>>
       /\ (pc = "bronze_metrics" /\ pc' # pc /\ ~InterruptStep) =>
            /\ last_cmd'.name = "metrics"
            /\ phase'["bronze"] = "Succeeded"
            /\ IF stage_arg = "full"
               THEN stage' = "silver" /\ pc' = "delete" /\ ~Exited'
               ELSE /\ ending' = "returned"
                    /\ success' = TRUE
                    /\ exit_code' = <<0>>]_vars

\* C9 witness: the executor-log command failed and the stage returned False.
C9_Witness ==
    /\ last_cmd = [name |-> "logs_executor", ok |-> FALSE]
    /\ \E s \in StageSet : phase[s] = "Failed"
    /\ ending = "returned"
    /\ exit_code = <<1>>

\* validate_pipeline has returned, and what it returned.
ValidateReturned ==
    IF stage_arg = "full"
    THEN validation_success # << >>
    ELSE stage_arg = "validate" /\ ending = "returned"

ValidateResult == IF stage_arg = "full" THEN validation_success[1] ELSE success

\* C10: the table checks run in the order bronze, silver, gold and only after
\* the pod was found and the connectivity query succeeded; once that query has
\* succeeded and validate_pipeline has returned, all three checks were attempted
\* and the result is True, whatever each check did.
C10_TableChecksAreWarnings ==
    /\ checks["bronze"] # "none" => checks["pod"] = "ok" /\ checks["conn"] = "ok"
    /\ checks["silver"] # "none" => checks["bronze"] # "none"
    /\ checks["gold"] # "none" => checks["silver"] # "none"
    /\ (ValidateReturned /\ checks["conn"] = "ok") =>
            /\ \A c \in TableChecks : checks[c] # "none"
            /\ ValidateResult = TRUE

\* C10 witness: all three table checks failed and validate_pipeline returned True.
C10_Witness ==
    /\ stage_arg = "validate"
    /\ \A c \in TableChecks : checks[c] = "fail"
    /\ ValidateReturned
    /\ ValidateResult = TRUE
    /\ exit_code = <<0>>

\* ---- C11
\* The stages that come before stage s in a full run.
EarlierStages(s) == {p \in StageSet : StageIndex(p) < StageIndex(s)}

\* The jobs this run has submitted and has not seen reach a terminal outcome.
NonTerminalJobs == {s \in StageSet : phase[s] \in {"Submitted", "Polling"}}

\* The step issues the first command of stage s, its delete.
FirstCommandOf(s) == deletes[s] = 0 /\ deletes'[s] = 1

\* C11: in a full run the stages run in the order smoke, bronze, silver, gold,
\* validation: the first command of a stage (and of the validation) is issued
\* only after the status query of the previous stage's job returned COMPLETED
\* and every earlier stage succeeded, and at no time are two jobs submitted by
\* this run both short of a terminal outcome.
C11_StagesStrictlySequential ==
    [][stage_arg = "full" =>
        /\ \A s \in StageSet :
              FirstCommandOf(s) =>
                /\ \A p \in EarlierStages(s) : phase[p] = "Succeeded"
                /\ \A q \in StageSet \ EarlierStages(s) : phase[q] = "NotStarted"
                /\ s # "smoke" => status = "COMPLETED"
        /\ (validated' /\ last_cmd'.name = "trino_pod" /\ last_cmd.name # "trino_pod") =>
                /\ \A p \in StageSet : phase[p] = "Succeeded"
                /\ status = "COMPLETED"
        /\ Cardinality(NonTerminalJobs') <= 1]_vars

\* Witness: the gold job is being polled after smoke, bronze and silver succeeded.
C11_Witness ==
    /\ stage_arg = "full"
    /\ stage = "gold"
    /\ phase["gold"] = "Polling"
    /\ \A p \in EarlierStages("gold") : phase[p] = "Succeeded"

\* ---- C12
\* C12: an interruption, at whatever point of a run it arrives, is handled by
\* main (reported as "interrupted by user") and ends the process with exit code
\* 1; once the process has been interrupted it issues no further command.
C12_InterruptExitsOne ==
    /\ ending = "interrupt" => exit_code = <<1>> /\ pc = "exited"
    /\ pc = "exited" => ~ENABLED Next

\* ---- C13
\* run_full_pipeline returned True to main.
FullRunSucceeded == stage_arg = "full" /\ ending = "returned" /\ success

\* run_full_pipeline: total_time, once it has returned (no time passes after the
\* reading of line 349).
total_time == now - pipeline_start_time

C14_SuccessOnlyFromOwnJob ==
    [][\A s \in StageSet :
         (phase[s] # "Succeeded" /\ phase'[s] = "Succeeded") => ~leftover]_vars

\* ---- C15
\* The most passes of the loop of wait_for_spark_job that can get past the
\* timeout test: they begin at least 10 s apart, the first at elapsed >= 0.
MaxQueries(m) == TimeoutSeconds(m) \div RetrySleep + 1

ScalingStep == pc = "scaling" /\ ~InterruptStep

\* C16: the executor-scaling wait of the bronze stage is a heuristic only.  It
\* polls the executor count while fewer than 600 s have passed since the apply,
\* ends at the first poll that sees at least 39 executors (38 are not enough,
\* the loop sleeps 20 s and goes on) or once 600 s have passed, never ends the
\* stage or the process, and issues no job-status query; what follows is
\* wait_for_spark_job with a timeout of 180 minutes, and the stage's result is
\* that wait's result.
C16_ScalingWaitIsHeuristic ==
    [][/\ ScalingStep =>
            /\ pc' \in {"scaling", "wait"}
            /\ stage' = "bronze" /\ exit_code' = << >>
            /\ phase["bronze"] = "Submitted" /\ phase' = phase
            /\ last_cmd'.name # "status"
            /\ pc' = "scaling" =>
                 /\ executor_count' < 39
                 /\ now - scaling_start_time < 600
                 /\ last_cmd'.name = "executors"
                 /\ now' >= now + ScalingSleep
            /\ pc' = "wait" =>
                 /\ executor_count' >= 39 \/ now - scaling_start_time >= 600
                 /\ timeout_minutes' = 180
                 /\ wait_start_time' = now'
                 /\ iterations' = 0
            /\ now - scaling_start_time >= 600 =>
                 pc' = "wait" /\ now' = now /\ executor_count' = executor_count
       /\ \A ok \in BOOLEAN :
            (stage_arg = "bronze" /\ ending' = "returned" /\ success' = ok) =>
                (ok <=> phase'["bronze"] = "Succeeded")]_vars

\* Witness: the scaling loop slept at least once and ended at a poll that saw
\* exactly 39 executors; wait_for_spark_job has just been entered.
C16_Witness ==
    /\ stage = "bronze" /\ pc = "wait" /\ iterations = 0
    /\ executor_count = 39
    /\ wait_start_time >= scaling_start_time + ScalingSleep
    /\ wait_start_time - scaling_start_time < ScalingWindow

\* Witness: the scaling loop ended because 600 s had passed, too few executors
\* having been seen.
C16_WitnessExpired ==
    /\ stage = "bronze" /\ pc = "wait" /\ iterations = 0
    /\ executor_count = 38
    /\ wait_start_time - scaling_start_time >= ScalingWindow

\* ---- C17
\* The step in which run_full_pipeline, its four stages having returned True,
\* receives the result of validate_pipeline and computes the summary.
SummaryStep ==
    /\ stage_arg = "full"
    /\ validation_success = << >>
    /\ validation_success' # << >>

\* C17: whenever all four stages have returned success, run_full_pipeline
\* returns True whatever the clock readings were: the performance summary never
\* raises, also when the bronze stage's start and end readings are equal.
C17_SummaryNeverRaises ==
    [][SummaryStep =>
         /\ \A s \in StageSet : phase[s] = "Succeeded"
         /\ ending' = "returned"
         /\ success' = TRUE]_vars

\* ---- C18
\* The commands of one stage method: delete, apply, the executor counts, the
\* status query, the logs of a failed job and the bronze metrics.
StageCommands ==
    {"delete", "apply", "executors", "status", "logs_driver", "logs_executor", "metrics"}

\* No command of stage s has been issued and its method has not been entered.
Untouched(s) ==
    /\ deletes[s] = 0 /\ applies[s] = 0
    /\ phase[s] = "NotStarted"
    /\ stage # s

C18_WitnessSingleStage ==
    /\ ~check_resources /\ stage_arg = "gold"
    /\ phase["gold"] = "Failed"
    /\ exit_code = <<1>> /\ ending = "returned"

=============================================================================
